---- MODULE Spec2Model ----
(***************************************************************************)
(* Model of the GT911 polling userspace driver (src/driver.py).            *)
(*                                                                         *)
(* The driver is one thread: GT911.__init__ queries the panel geometry and *)
(* enters GT911.__readLoop, which polls the status register, queries the   *)
(* reported contacts, diffs them against the previous cycle and emits      *)
(* multi-touch events.  The controller and the I2C bus are the             *)
(* environment: every byte read is chosen by the environment, and every    *)
(* bus transaction may raise (smbus2 raises OSError).                      *)
(*                                                                         *)
(* pc is the position of the thread inside __readLoop.  busLog, uiLog and  *)
(* trackLog record what the current cycle did on the bus, wrote to the     *)
(* virtual input device and which track handlers it called; they are       *)
(* emptied by the status read that starts the next cycle.                  *)
(***************************************************************************)
EXTENDS Integers, Sequences, FiniteSets

------------------------------------------------------------------------------
(* Bounds of the environment *)

\* narrow panel: track IDs 0..MaxTrack
MaxTrack == 2
\* wide panel: track IDs 0..MaxWideTrack (more IDs than contact slots)
MaxWideTrack == 5
\* scaling factors 1..MaxScale
MaxScale == 2

\* the register access layer is applied to 1..MaxRegisters registers
MaxRegisters == 2

(* Program constants *)

\* the contact count is the low nibble of the status byte
MaxTouchPoints == 15
\* __queryPoint accepts point IDs 0..MaxPointID
MaxPointID == 4
\* the tracking id written when a track ends
NoTrack == -1

StatusRegister == <<129, 78>>          \* [0x81, 0x4E]
ResolutionXRegisters == << <<129, 70>>, <<129, 71>> >>
ResolutionYRegisters == << <<129, 72>>, <<129, 73>> >>

\* __tpRegisterID: the registers of contact slot p
tpRegisterID(p) ==
  [ track |-> <<129, 79 + 8 * p>>,
    x     |-> << <<129, 80 + 8 * p>>, <<129, 81 + 8 * p>> >>,
    y     |-> << <<129, 82 + 8 * p>>, <<129, 83 + 8 * p>> >>,
    size  |-> << <<129, 84 + 8 * p>>, <<129, 85 + 8 * p>> >> ]

------------------------------------------------------------------------------
VARIABLES
  hw,                  \* what the controller may return: status bytes, track IDs, raw points
  scalingFactor, flipX, flipY, swapXY,   \* configuration
  coordinateResolution,                  \* <<xRes, yRes>> read at start-up
  touchInfo,           \* __touchInfo: track ID -> contact
  previousTouchInfo,   \* __previousTouchInfo
  pc,                  \* position in __readLoop
  statusByte,          \* last status byte read
  i,                   \* loop index of the contact query loop
  tracksThisRound,     \* track IDs read in this cycle
  exception,           \* the exception that ended the loop, or "none"
  busLog,              \* bus transactions of this cycle
  uiLog,               \* events written to the virtual device in this cycle
  trackLog,            \* track handlers called in this cycle
  cyclePrevious,       \* history: __previousTouchInfo when this cycle started
  liveTracks,          \* history: track IDs announced as New and not yet Ended
  readThisRound,       \* history: track ID -> the contact last read for it in this cycle
  applied              \* the last application of a pure function, with its result

vars == <<hw, scalingFactor, flipX, flipY, swapXY, coordinateResolution,
          touchInfo, previousTouchInfo, pc, statusByte, i, tracksThisRound,
          exception, busLog, uiLog, trackLog, cyclePrevious, liveTracks,
          readThisRound, applied>>

config == <<hw, scalingFactor, flipX, flipY, swapXY, coordinateResolution>>

------------------------------------------------------------------------------
(* Register access layer *)

RECURSIVE CombineFrom(_, _)
CombineFrom(readValues, k) ==
  IF k > Len(readValues) THEN 0
  ELSE readValues[k] * (2 ^ (8 * (k - 1))) + CombineFrom(readValues, k + 1)

\* mutant: the first register read is the most significant byte
RECURSIVE CombineBigEndianFrom(_, _)
CombineBigEndianFrom(readValues, k) ==
  IF k > Len(readValues) THEN 0
  ELSE readValues[k] * (2 ^ (8 * (Len(readValues) - k)))
         + CombineBigEndianFrom(readValues, k + 1)
readI2CMultiByteValueBigEndian(readValues) == CombineBigEndianFrom(readValues, 1)

\* __readI2CMultiByteValue with combine = True: value << (8 * i), OR-ed together.
\* The operands are bytes, so their shifted bit ranges are disjoint and OR is +.
readI2CMultiByteValue(readValues) == CombineFrom(readValues, 1)

\* "for register in registers: value = self.__readI2C(register, numBytes = 1)"
ReadOp(register) == [op |-> "read", reg |-> register]
WriteOp(register, data) == [op |-> "write", reg |-> register, data |-> data]

MultiByteReads(registers) == [k \in DOMAIN registers |-> ReadOp(registers[k])]

\* mutant: the contact slots are read from the last one down
QueryPointReadsDescending(p) ==
  LET r == tpRegisterID(MaxPointID - p)
  IN << ReadOp(r.x[1]), ReadOp(r.x[2]), ReadOp(r.y[1]), ReadOp(r.y[2]),
        ReadOp(r.size[1]), ReadOp(r.size[2]), ReadOp(r.track) >>

\* the __readI2C calls of one __queryPoint(p), in program order
QueryPointReads(p) ==
  LET r == tpRegisterID(p)
  IN << ReadOp(r.x[1]), ReadOp(r.x[2]), ReadOp(r.y[1]), ReadOp(r.y[2]),
        ReadOp(r.size[1]), ReadOp(r.size[2]), ReadOp(r.track) >>

------------------------------------------------------------------------------
(* Status decoder *)

\* mutant: the ready flag taken from bit 6
bufferStatusWrongBit(b) == (b \div 64) % 2 = 1

bufferStatus(b) == (b \div 128) % 2 = 1
largeDetect(b) == (b \div 64) % 2 = 1
proximityValid(b) == (b \div 32) % 2 = 1
haveKey(b) == (b \div 16) % 2 = 1
\* mutant: a three-bit contact count
touchPointsThreeBits(b) == b % 8

touchPoints(b) == b % 16

------------------------------------------------------------------------------
(* Device metadata query and contact query *)

queryCoordinateResolution(xBytes, yBytes, scale, swap) ==
  LET xRes == readI2CMultiByteValue(xBytes) * scale
      yRes == readI2CMultiByteValue(yBytes) * scale
  IN IF swap THEN <<yRes, xRes>> ELSE <<xRes, yRes>>

\* __queryPoint for raw reading raw = [x, y, size: byte pairs, track: byte]
queryPoint(raw, scale, fx, fy, swap, res) ==
  LET x0 == readI2CMultiByteValue(raw.x) * scale
      y0 == readI2CMultiByteValue(raw.y) * scale
      x1 == IF fx THEN res[1] - x0 ELSE x0
      y1 == IF fy THEN res[2] - y0 ELSE y0
  IN [ x     |-> IF swap THEN y1 ELSE x1,
       y     |-> IF swap THEN x1 ELSE y1,
       size  |-> readI2CMultiByteValue(raw.size),
       track |-> raw.track ]

------------------------------------------------------------------------------
(* Track state *)

EmptyInfo == [t \in {} |-> 0]

\* mutant: a track ID already present keeps its old contact
StoreContactKeepFirst(info, c) ==
  [t \in DOMAIN info \cup {c.track} |-> IF t \in DOMAIN info THEN info[t] ELSE c]

\* self.__touchInfo[track] = {...}
StoreContact(info, c) ==
  [t \in DOMAIN info \cup {c.track} |-> IF t = c.track THEN c ELSE info[t]]

\* mutant: nothing is removed
RemoveMissingTracksNone(info, round) == info

\* toDel = [k for k in touchInfo.keys() if k not in tracksThisRound]; del each
RemoveMissingTracks(info, round) ==
  [t \in DOMAIN info \cap round |-> info[t]]

\* mutants of the three set expressions of __eventCallback
newTracksAll(cur, prev) == DOMAIN cur
commonTracksChanged(cur, prev) ==
  {t \in DOMAIN cur \cap DOMAIN prev : cur[t] # prev[t]}
endedTracksSwapped(cur, prev) == DOMAIN cur \ DOMAIN prev

newTracksOf(cur, prev) == DOMAIN cur \ DOMAIN prev
commonTracksOf(cur, prev) == DOMAIN cur \cap DOMAIN prev
endedTracksOf(cur, prev) == DOMAIN prev \ DOMAIN cur

\* mutant: previous is updated with current instead of replaced by it
UpdatePreviousMerge(cur, prev) ==
  [t \in DOMAIN cur \cup DOMAIN prev |-> IF t \in DOMAIN cur THEN cur[t] ELSE prev[t]]

\* self.__previousTouchInfo = self.__touchInfo.copy()
UpdatePreviousState(cur, prev) == cur

------------------------------------------------------------------------------
(* Event emitter *)

Ev(code, value) == [code |-> code, value |-> value]
SynReport == Ev("SYN_REPORT", 0)

newTrack(trackID, info) ==
  << Ev("ABS_MT_SLOT", trackID),
     Ev("ABS_MT_TRACKING_ID", trackID),
     Ev("ABS_MT_POSITION_X", info.x),
     Ev("ABS_MT_POSITION_Y", info.y),
     Ev("ABS_MT_TOUCH_MAJOR", info.size) >>

\* mutant: an update re-assigns the tracking id
updateTrackWithId(trackID, info) == newTrack(trackID, info)

updateTrack(trackID, info) ==
  << Ev("ABS_MT_SLOT", trackID),
     Ev("ABS_MT_POSITION_X", info.x),
     Ev("ABS_MT_POSITION_Y", info.y),
     Ev("ABS_MT_TOUCH_MAJOR", info.size) >>

endTrack(trackID) ==
  << Ev("ABS_MT_SLOT", trackID),
     Ev("ABS_MT_TRACKING_ID", NoTrack) >>

\* self.caps[e.EV_ABS]: the value ranges declared for the virtual device
Caps(res) ==
  [ ABS_MT_SLOT        |-> [min |-> 0, max |-> 9],
    ABS_MT_TOUCH_MAJOR |-> [min |-> 0, max |-> 255],
    ABS_MT_POSITION_X  |-> [min |-> 0, max |-> res[1]],
    ABS_MT_POSITION_Y  |-> [min |-> 0, max |-> res[2]],
    ABS_MT_TRACKING_ID |-> [min |-> 0, max |-> 65535] ]

\* mutant: a synchronization point after every group, empty or not
SynAlways(tracks) == <<SynReport>>

\* if len(tracks) > 0: self.ui.syn()
SynIfAny(tracks) == IF tracks # {} THEN <<SynReport>> ELSE << >>

\* the orders in which "for trackID in <set>" may visit the set
Orders(S) ==
  {o \in [1..Cardinality(S) -> S] : \A a, b \in DOMAIN o : a # b => o[a] # o[b]}

RECURSIVE NewEvents(_, _, _)
NewEvents(order, k, cur) ==
  IF k > Len(order) THEN << >>
  ELSE newTrack(order[k], cur[order[k]]) \o NewEvents(order, k + 1, cur)

RECURSIVE UpdateEvents(_, _, _)
UpdateEvents(order, k, cur) ==
  IF k > Len(order) THEN << >>
  ELSE updateTrack(order[k], cur[order[k]]) \o UpdateEvents(order, k + 1, cur)

RECURSIVE EndEvents(_, _)
EndEvents(order, k) ==
  IF k > Len(order) THEN << >>
  ELSE endTrack(order[k]) \o EndEvents(order, k + 1)

Calls(kind, order) == [k \in 1..Len(order) |-> <<kind, order[k]>>]

\* the live tracks after the handler calls calls[k..]: __newTrack announces a
\* tracking id to the input stack, __endTrack releases it
RECURSIVE LiveAfter(_, _, _)
LiveAfter(live, calls, k) ==
  IF k > Len(calls) THEN live
  ELSE LiveAfter(CASE calls[k][1] = "New" -> live \cup {calls[k][2]}
                   [] calls[k][1] = "Ended" -> live \ {calls[k][2]}
                   [] OTHER -> live,
                 calls, k + 1)

------------------------------------------------------------------------------
(* Start-up *)

\* the high nibbles (bufferStatus, largeDetect, proximityValid, haveKey) of the
\* status bytes the narrow panel returns, and the ready bytes with every flag set
FlagNibbles == {0, 7, 8}
AllFlagsReady == {240, 241, 242}

\* a configuration: the constructor's arguments
Config(scale, fx, fy, swap) ==
  [scaling |-> scale, flipX |-> fx, flipY |-> fy, swapXY |-> swap]
PlainConfig == Config(1, FALSE, FALSE, FALSE)
FullConfig == Config(MaxScale, TRUE, TRUE, TRUE)

Raw(x, y, size) == [x |-> x, y |-> y, size |-> size]

NarrowPanel ==
  [ status |-> {f * 16 + n : f \in FlagNibbles, n \in 0..MaxTouchPoints}
                 \cup AllFlagsReady,
    tracks |-> 0..MaxTrack,
    points |-> { Raw(<<10, 0>>, <<20, 0>>, <<3, 0>>),
                 Raw(<<44, 1>>, <<0, 0>>, <<1, 0>>) },
    xRes   |-> <<32, 3>>,
    yRes   |-> <<224, 1>> ]

WidePanel ==
  [ status |-> {128 + 5, 128 + 1, 128, 128 + 6},
    tracks |-> 0..MaxWideTrack,
    points |-> { Raw(<<10, 0>>, <<20, 0>>, <<3, 0>>) },
    xRes   |-> <<32, 3>>,
    yRes   |-> <<224, 1>> ]

NoCall == [fn |-> "none"]

\* a panel that reports track IDs over the whole byte range
AnyIdPanel ==
  [ status |-> {0, 128, 129, 130, 134},
    tracks |-> {0, 9, 10, 255},
    points |-> { Raw(<<10, 0>>, <<20, 0>>, <<3, 0>>) },
    xRes   |-> <<32, 3>>,
    yRes   |-> <<224, 1>> ]

\* the state when __init__ calls __readLoop
InitWith(panel, configs) ==
  /\ hw = panel
  /\ \E c \in configs :
       /\ scalingFactor = c.scaling
       /\ flipX = c.flipX
       /\ flipY = c.flipY
       /\ swapXY = c.swapXY
  /\ coordinateResolution =
       queryCoordinateResolution(panel.xRes, panel.yRes, scalingFactor, swapXY)
  /\ touchInfo = EmptyInfo
  /\ previousTouchInfo = EmptyInfo
  /\ pc = "ReadStatus"
  /\ statusByte = 0
  /\ i = 0
  /\ tracksThisRound = {}
  /\ exception = "none"
  /\ busLog = << >>
  /\ uiLog = << >>
  /\ trackLog = << >>
  /\ cyclePrevious = EmptyInfo
  /\ liveTracks = {}
  /\ readThisRound = EmptyInfo
  /\ applied = NoCall

Init == InitWith(NarrowPanel, {PlainConfig})

InitWide == InitWith(WidePanel, {FullConfig})

InitAnyId == InitWith(AnyIdPanel, {PlainConfig})

------------------------------------------------------------------------------
(* The polling loop *)

\* an exception leaves the while loop: nothing catches it
Raise(e) ==
  /\ pc' = "Crashed"
  /\ exception' = e

\* statusByte = self.__readI2C([0x81, 0x4E]) and the branch on it
ReadStatus ==
  /\ pc = "ReadStatus"
  /\ \E b \in hw.status :
       /\ statusByte' = b
       /\ IF bufferStatus(b)
          THEN IF touchPoints(b) >= 1
               THEN /\ pc' = "QueryPoint"
                    /\ touchInfo' = touchInfo
               ELSE /\ pc' = "EventCallback"
                    /\ touchInfo' = EmptyInfo
          ELSE /\ pc' = "Sleep"
               /\ touchInfo' = touchInfo
  /\ i' = 0
  /\ tracksThisRound' = {}
  /\ readThisRound' = EmptyInfo
  /\ busLog' = <<ReadOp(StatusRegister)>>
  /\ uiLog' = << >>
  /\ trackLog' = << >>
  /\ cyclePrevious' = previousTouchInfo
  /\ UNCHANGED <<config, liveTracks, applied, previousTouchInfo, exception>>

\* the status read raises
ReadStatusFail ==
  /\ pc = "ReadStatus"
  /\ Raise("OSError")
  /\ busLog' = <<ReadOp(StatusRegister)>>
  /\ uiLog' = << >>
  /\ trackLog' = << >>
  /\ cyclePrevious' = previousTouchInfo
  /\ UNCHANGED <<config, liveTracks, applied, readThisRound, touchInfo,
                 previousTouchInfo, statusByte,
                 i, tracksThisRound>>

\* one iteration of "for i in range(touchPoints)"
QueryPoint ==
  /\ pc = "QueryPoint"
  /\ i <= MaxPointID
  /\ \E p \in hw.points, t \in hw.tracks :
       LET c == queryPoint([x |-> p.x, y |-> p.y, size |-> p.size, track |-> t],
                           scalingFactor, flipX, flipY, swapXY, coordinateResolution)
       IN /\ touchInfo' = StoreContact(touchInfo, c)
          /\ tracksThisRound' = tracksThisRound \cup {c.track}
          /\ readThisRound' = [t2 \in DOMAIN readThisRound \cup {t} |->
                                  IF t2 = t THEN c ELSE readThisRound[t2]]
  /\ busLog' = busLog \o QueryPointReads(i)
  /\ i' = i + 1
  /\ pc' = IF i + 1 = touchPoints(statusByte) THEN "RemoveMissing" ELSE "QueryPoint"
  /\ UNCHANGED <<config, cyclePrevious, liveTracks, applied, previousTouchInfo,
                 statusByte, exception, uiLog, trackLog>>

\* assert 0 <= pointID <= 4 fails (with assertions compiled out, the lookup
\* __tpRegisterID[5] raises instead: an exception leaves the loop either way)
QueryPointAssert ==
  /\ pc = "QueryPoint"
  /\ i > MaxPointID
  /\ Raise("AssertionError")
  /\ UNCHANGED <<config, cyclePrevious, liveTracks, applied, readThisRound, touchInfo,
                 previousTouchInfo, statusByte, i, tracksThisRound,
                 busLog, uiLog, trackLog>>

\* mutant: the error is caught, the cycle abandoned and the loop goes on
QueryPointFailContinue ==
  /\ pc = "QueryPoint"
  /\ i <= MaxPointID
  /\ \E k \in 1..Len(QueryPointReads(i)) :
       busLog' = busLog \o SubSeq(QueryPointReads(i), 1, k)
  /\ pc' = "Sleep"
  /\ exception' = "OSError"
  /\ UNCHANGED <<config, cyclePrevious, liveTracks, applied, readThisRound, touchInfo,
                 previousTouchInfo, statusByte, i, tracksThisRound,
                 uiLog, trackLog>>

\* the k-th register read of __queryPoint(i) raises
QueryPointFail ==
  /\ pc = "QueryPoint"
  /\ i <= MaxPointID
  /\ \E k \in 1..Len(QueryPointReads(i)) :
       busLog' = busLog \o SubSeq(QueryPointReads(i), 1, k)
  /\ Raise("OSError")
  /\ UNCHANGED <<config, cyclePrevious, liveTracks, applied, readThisRound, touchInfo,
                 previousTouchInfo, statusByte, i, tracksThisRound,
                 uiLog, trackLog>>

\* "Remove missing tracks from info"
RemoveMissing ==
  /\ pc = "RemoveMissing"
  /\ touchInfo' = RemoveMissingTracks(touchInfo, tracksThisRound)
  /\ pc' = "EventCallback"
  /\ UNCHANGED <<config, cyclePrevious, liveTracks, applied, readThisRound,
                 previousTouchInfo,
                 statusByte, i, tracksThisRound, exception,
                 busLog, uiLog, trackLog>>

\* __eventCallback
EventCallback ==
  /\ pc = "EventCallback"
  /\ LET newTracks == newTracksOf(touchInfo, previousTouchInfo)
         commonTracks == commonTracksOf(touchInfo, previousTouchInfo)
         endedTracks == endedTracksOf(touchInfo, previousTouchInfo)
     IN \E on \in Orders(newTracks), oc \in Orders(commonTracks), oe \in Orders(endedTracks) :
          /\ uiLog' = uiLog \o NewEvents(on, 1, touchInfo) \o SynIfAny(newTracks)
                            \o UpdateEvents(oc, 1, touchInfo) \o SynIfAny(commonTracks)
                            \o EndEvents(oe, 1) \o SynIfAny(endedTracks)
          /\ trackLog' = trackLog \o Calls("New", on) \o Calls("Updated", oc)
                                  \o Calls("Ended", oe)
  /\ previousTouchInfo' = UpdatePreviousState(touchInfo, previousTouchInfo)
  /\ pc' = "ClearBuffer"
  /\ liveTracks' = LiveAfter(liveTracks, trackLog', 1)
  /\ UNCHANGED <<config, cyclePrevious, applied, readThisRound, touchInfo, statusByte, i,
                 tracksThisRound, exception, busLog>>

\* self.__writeI2C([0x81, 0x4E], 0)
ClearBuffer ==
  /\ pc = "ClearBuffer"
  /\ busLog' = Append(busLog, WriteOp(StatusRegister, 0))
  /\ pc' = "Sleep"
  /\ UNCHANGED <<config, cyclePrevious, liveTracks, applied, readThisRound, touchInfo,
                 previousTouchInfo, statusByte, i, tracksThisRound,
                 exception, uiLog, trackLog>>

\* mutant: the failed buffer-clear write is ignored and the loop goes on
ClearBufferFailContinue ==
  /\ pc = "ClearBuffer"
  /\ busLog' = Append(busLog, WriteOp(StatusRegister, 0))
  /\ pc' = "Sleep"
  /\ exception' = "OSError"
  /\ UNCHANGED <<config, cyclePrevious, liveTracks, applied, readThisRound, touchInfo,
                 previousTouchInfo,
                 statusByte, i, tracksThisRound, uiLog, trackLog>>

\* the buffer-clear write raises
ClearBufferFail ==
  /\ pc = "ClearBuffer"
  /\ busLog' = Append(busLog, WriteOp(StatusRegister, 0))
  /\ Raise("OSError")
  /\ UNCHANGED <<config, cyclePrevious, liveTracks, applied, readThisRound, touchInfo,
                 previousTouchInfo, statusByte, i, tracksThisRound,
                 uiLog, trackLog>>

\* time.sleep(0.001), then the next iteration of while(True)
Sleep ==
  /\ pc = "Sleep"
  /\ pc' = "ReadStatus"
  /\ UNCHANGED <<config, cyclePrevious, liveTracks, applied, readThisRound, touchInfo,
                 previousTouchInfo, statusByte, i, tracksThisRound,
                 exception, busLog, uiLog, trackLog>>

Next ==
  \/ ReadStatus
  \/ ReadStatusFail
  \/ QueryPoint
  \/ QueryPointAssert
  \/ QueryPointFail
  \/ RemoveMissing
  \/ EventCallback
  \/ ClearBuffer
  \/ ClearBufferFail
  \/ Sleep

Spec == Init /\ [][Next]_vars

SpecWide == InitWide /\ [][Next]_vars

SpecAnyId == InitAnyId /\ [][Next]_vars

------------------------------------------------------------------------------
(* The pure functions of the driver, applied to inputs of their own *)

loopVars == <<config, touchInfo, previousTouchInfo, pc, statusByte, i, tracksThisRound,
              exception, busLog, uiLog, trackLog, cyclePrevious, liveTracks,
              readThisRound>>

SampleBytes == {0, 18, 52, 255}
SampleRegisters == << <<0, 0>>, <<0, 1>>, <<0, 2>>, <<0, 3>> >>
\* 0, 10, 480 and 800 as register byte pairs, low byte first
SampleCoordinates == { <<0, 0>>, <<10, 0>>, <<224, 1>>, <<32, 3>> }
SampleResolutions == { <<224, 1>>, <<32, 3>> }

\* the status decoding at the head of the loop body
ApplyDecodeStatus ==
  /\ \E b \in 0..255 :
       applied' = [ fn |-> "decodeStatus", b |-> b,
                    bufferStatus |-> bufferStatus(b),
                    largeDetect |-> largeDetect(b),
                    proximityValid |-> proximityValid(b),
                    haveKey |-> haveKey(b),
                    touchPoints |-> touchPoints(b) ]
  /\ UNCHANGED loopVars

\* __readI2CMultiByteValue(registers), the bus returning bytes[k] for registers[k]
ApplyReadMultiByte ==
  /\ \E n \in 1..MaxRegisters :
       \E bytes \in [1..n -> SampleBytes] :
         LET registers == SubSeq(SampleRegisters, 1, n)
         IN applied' = [ fn |-> "readI2CMultiByteValue",
                         registers |-> registers, bytes |-> bytes,
                         reads |-> MultiByteReads(registers),
                         value |-> readI2CMultiByteValue(bytes) ]
  /\ UNCHANGED loopVars

\* __queryCoordinateResolution at start-up, then __queryPoint on one raw reading
ApplyQueryPoint ==
  /\ \E xRes \in SampleResolutions, yRes \in SampleResolutions,
        scale \in 1..MaxScale, fx \in BOOLEAN, fy \in BOOLEAN, swap \in BOOLEAN,
        x \in SampleCoordinates, y \in SampleCoordinates :
       LET res == queryCoordinateResolution(xRes, yRes, scale, swap)
           raw == [x |-> x, y |-> y, size |-> <<3, 0>>, track |-> 0]
       IN applied' = [ fn |-> "queryPoint",
                       xRes |-> xRes, yRes |-> yRes, scaling |-> scale,
                       flipX |-> fx, flipY |-> fy, swapXY |-> swap,
                       raw |-> raw, resolution |-> res,
                       point |-> queryPoint(raw, scale, fx, fy, swap, res) ]
  /\ UNCHANGED loopVars

NextPure ==
  \/ ApplyDecodeStatus
  \/ ApplyReadMultiByte
  \/ ApplyQueryPoint

SpecPure == Init /\ [][NextPure]_vars

------------------------------------------------------------------------------
(* Vocabulary of the properties, stated on the logs and the raw status byte *)

ReadyBit(b) == b >= 128
CountNibble(b) == b % 16

Size(info) == Cardinality(DOMAIN info)

\* the track IDs for which the handler of this kind was called
Handled(kind, log) == {log[k][2] : k \in {j \in DOMAIN log : log[j][1] = kind}}
NumCalls(kind, log) == Cardinality({j \in DOMAIN log : log[j][1] = kind})

IsSyn(e) == e.code = "SYN_REPORT"
NotSyn(e) == e.code # "SYN_REPORT"
SynCount(log) == Cardinality({k \in DOMAIN log : IsSyn(log[k])})

Acknowledged(log) == \E k \in DOMAIN log : log[k] = WriteOp(StatusRegister, 0)

\* a cycle has been started and is over
CycleOver == busLog # << >> /\ pc \in {"Sleep", "ReadStatus", "Crashed"}
\* the diff of this cycle has run
DiffDone == pc \in {"ClearBuffer", "Sleep"}

------------------------------------------------------------------------------
(* C1 *)

\* C1 (as claimed): every polling cycle whose status byte has bit 7 set, with
\* any contact count 0..15, and that was not cut short by a bus error, has
\* written 0 to the status register when it is over.
C1_ReadyCycleAcknowledged ==
  (CycleOver /\ ReadyBit(statusByte) /\ exception # "OSError") => Acknowledged(busLog)

------------------------------------------------------------------------------
(* C2 *)

MaxContacts == MaxPointID + 1

\* C2 (as claimed): in every reachable state, the middle of a cycle included,
\* __touchInfo and __previousTouchInfo each hold at most 5 entries.
C2_AtMostFiveAlways ==
  Size(touchInfo) <= MaxContacts /\ Size(previousTouchInfo) <= MaxContacts

\* C2 (amended): __previousTouchInfo holds at most 5 entries in every reachable
\* state; __touchInfo holds at most 5 entries at every status read, when the
\* diff runs and until the cycle is over, and at most 10 (the 5 kept from the
\* previous cycle and 5 read in this one) while contacts are being read.
C2_AtMostFiveOutsideQuery ==
  /\ Size(previousTouchInfo) <= MaxContacts
  /\ pc \in {"ReadStatus", "EventCallback", "ClearBuffer", "Sleep"}
       => Size(touchInfo) <= MaxContacts
  /\ Size(touchInfo) <= 2 * MaxContacts

\* the diff is about to run on 5 contacts, after a cycle that kept 5 others
C2_Witness ==
  /\ pc = "EventCallback"
  /\ Size(touchInfo) = MaxContacts
  /\ Size(previousTouchInfo) = MaxContacts
  /\ DOMAIN touchInfo # DOMAIN previousTouchInfo

------------------------------------------------------------------------------
(* C3 *)

\* C3: at every diff pass the tracks handled as New and as Updated together are
\* the keys of current, those handled as Updated and as Ended together are the
\* keys of previous, and the three sets are pairwise disjoint.
C3_DiffPartition ==
  [][pc = "EventCallback" =>
       LET N == Handled("New", trackLog')
           U == Handled("Updated", trackLog')
           E == Handled("Ended", trackLog')
       IN /\ N \cup U = DOMAIN touchInfo
          /\ U \cup E = DOMAIN previousTouchInfo
          /\ N \cap U = {} /\ U \cap E = {} /\ N \cap E = {}
          /\ \A t \in DOMAIN touchInfo \ DOMAIN previousTouchInfo : t \in N /\ t \notin U
          /\ \A t \in DOMAIN previousTouchInfo \ DOMAIN touchInfo : t \in E]_vars

\* a diff pass has handled a new, a continuing and an ended track
C3_Witness ==
  /\ pc = "ClearBuffer"
  /\ Handled("New", trackLog) # {}
  /\ Handled("Updated", trackLog) # {}
  /\ Handled("Ended", trackLog) # {}

------------------------------------------------------------------------------
(* C4 *)

\* C4: previous changes only in the step that ends the diff, after every event
\* and synchronization point of the cycle, and then becomes all of current; at
\* every status read previous equals current, and no track Ended in the
\* finished cycle is left in previous.
C4_PreviousReplacedWhole ==
  /\ [](pc = "ReadStatus" => previousTouchInfo = touchInfo)
  /\ [](DiffDone \/ pc = "ReadStatus"
          => Handled("Ended", trackLog) \cap DOMAIN previousTouchInfo = {})
  /\ [][previousTouchInfo' # previousTouchInfo =>
          /\ pc = "EventCallback" /\ pc' = "ClearBuffer"
          /\ previousTouchInfo' = touchInfo
          /\ uiLog' # << >> /\ IsSyn(uiLog'[Len(uiLog')])]_vars

\* a cycle that ended one track and kept another is over
C4_Witness ==
  /\ pc = "ReadStatus"
  /\ Handled("Ended", trackLog) # {}
  /\ previousTouchInfo # EmptyInfo

------------------------------------------------------------------------------
(* C5 *)

\* C5: a cycle whose status byte has bit 7 clear only reads the status
\* register: it goes to the sleep and back to the status read, emits nothing,
\* writes nothing and leaves current and previous as they were, whatever the
\* other bits of the status byte are.
C5_NotReadyCycleIsIdle ==
  [][/\ (pc = "ReadStatus" /\ pc' # "Crashed" /\ ~ReadyBit(statusByte')) =>
          /\ pc' = "Sleep"
          /\ busLog' = <<ReadOp(StatusRegister)>>
          /\ uiLog' = << >> /\ trackLog' = << >>
          /\ UNCHANGED <<touchInfo, previousTouchInfo>>
     /\ (pc = "Sleep" /\ ~ReadyBit(statusByte)) =>
          /\ pc' = "ReadStatus"
          /\ UNCHANGED <<touchInfo, previousTouchInfo, busLog, uiLog, trackLog>>]_vars

\* a not-ready status byte with other flags and a contact count was read while
\* contacts were being tracked
C5_Witness ==
  /\ pc = "Sleep"
  /\ ~ReadyBit(statusByte)
  /\ statusByte >= 64
  /\ CountNibble(statusByte) > 0
  /\ touchInfo # EmptyInfo

------------------------------------------------------------------------------
(* C6 *)

\* C6: the diff of a ready cycle with contact count 0 calls the Ended handler
\* exactly once for each track ID of previous and no other handler, writes for
\* each of them slot-select then tracking-id -1, and leaves current and
\* previous empty.
C6_AllReleased ==
  [][(pc = "EventCallback" /\ ReadyBit(statusByte) /\ CountNibble(statusByte) = 0) =>
       LET P == DOMAIN previousTouchInfo
       IN /\ Len(trackLog') = Cardinality(P)
          /\ {trackLog'[k] : k \in DOMAIN trackLog'} = {<<"Ended", t>> : t \in P}
          /\ Len(uiLog') = 2 * Cardinality(P) + (IF P = {} THEN 0 ELSE 1)
          /\ \A k \in DOMAIN trackLog' :
               /\ uiLog'[2 * k - 1] = Ev("ABS_MT_SLOT", trackLog'[k][2])
               /\ uiLog'[2 * k] = Ev("ABS_MT_TRACKING_ID", -1)
          /\ touchInfo' = EmptyInfo
          /\ previousTouchInfo' = EmptyInfo]_vars

\* a cycle with contact count 0 has ended the two tracks that were present
C6_Witness ==
  /\ pc = "ClearBuffer"
  /\ ReadyBit(statusByte) /\ CountNibble(statusByte) = 0
  /\ NumCalls("Ended", trackLog) = 2

------------------------------------------------------------------------------
(* C7 *)

KindRank(kind) == CASE kind = "New" -> 1 [] kind = "Updated" -> 2 [] kind = "Ended" -> 3

\* C7: the events of a cycle are all New events, one synchronization point if
\* there were any, all Updated events, one synchronization point if there were
\* any, all Ended events, one synchronization point if there were any: a
\* synchronization point stands exactly behind each non-empty group, so there
\* are at most three, and none when nothing was classified.
C7_OneSyncPerGroup ==
  LET n == NumCalls("New", trackLog)
      u == NumCalls("Updated", trackLog)
      e == NumCalls("Ended", trackLog)
      endNew == 5 * n + (IF n > 0 THEN 1 ELSE 0)
      endUpdated == endNew + 4 * u + (IF u > 0 THEN 1 ELSE 0)
      endEnded == endUpdated + 2 * e + (IF e > 0 THEN 1 ELSE 0)
      syncs == (IF n > 0 THEN {endNew} ELSE {})
                 \cup (IF u > 0 THEN {endUpdated} ELSE {})
                 \cup (IF e > 0 THEN {endEnded} ELSE {})
  IN /\ \A a, b \in DOMAIN trackLog :
          a < b => KindRank(trackLog[a][1]) <= KindRank(trackLog[b][1])
     /\ Len(uiLog) = endEnded
     /\ \A k \in DOMAIN uiLog : IsSyn(uiLog[k]) <=> k \in syncs
     /\ SynCount(uiLog) <= 3
     /\ (DiffDone /\ touchInfo = EmptyInfo /\ trackLog = << >>) => uiLog = << >>

\* a cycle has emitted three synchronization points
C7_Witness ==
  /\ DiffDone
  /\ SynCount(uiLog) = 3

------------------------------------------------------------------------------
(* C8 *)

\* the events the claim prescribes for one handler call
PrescribedEvents(call, info) ==
  LET t == call[2]
  IN CASE call[1] = "New" ->
            << Ev("ABS_MT_SLOT", t), Ev("ABS_MT_TRACKING_ID", t),
               Ev("ABS_MT_POSITION_X", info[t].x), Ev("ABS_MT_POSITION_Y", info[t].y),
               Ev("ABS_MT_TOUCH_MAJOR", info[t].size) >>
       [] call[1] = "Updated" ->
            << Ev("ABS_MT_SLOT", t),
               Ev("ABS_MT_POSITION_X", info[t].x), Ev("ABS_MT_POSITION_Y", info[t].y),
               Ev("ABS_MT_TOUCH_MAJOR", info[t].size) >>
       [] call[1] = "Ended" ->
            << Ev("ABS_MT_SLOT", t), Ev("ABS_MT_TRACKING_ID", -1) >>

RECURSIVE PrescribedFrom(_, _, _)
PrescribedFrom(calls, k, info) ==
  IF k > Len(calls) THEN << >>
  ELSE PrescribedEvents(calls[k], info) \o PrescribedFrom(calls, k + 1, info)

\* C8: without its synchronization points, the event stream of a cycle is, for
\* each classified track in turn, slot-select, tracking-id, position X,
\* position Y, contact size (New), slot-select, position X, position Y, contact
\* size (Updated) or slot-select, tracking-id -1 (Ended); and the stream ends
\* with a synchronization point, so each of them is followed by one before the
\* next status read.
C8_EventSequences ==
  /\ SelectSeq(uiLog, NotSyn) = PrescribedFrom(trackLog, 1, touchInfo)
  /\ trackLog # << >> => IsSyn(uiLog[Len(uiLog)])

\* a cycle has emitted a New, an Updated and an Ended sequence, and is over
C8_Witness ==
  /\ pc = "ReadStatus"
  /\ NumCalls("New", trackLog) >= 1
  /\ NumCalls("Updated", trackLog) >= 1
  /\ NumCalls("Ended", trackLog) >= 1

------------------------------------------------------------------------------
(* C9 *)

\* C9: when a ready cycle reports the same set of track IDs as the ready cycle
\* before it, its diff calls the Updated handler once for every one of them,
\* changed or not, calls no other handler, and emits one synchronization point
\* when the set is not empty and none when it is.
C9_StableState ==
  [][(pc = "EventCallback" /\ tracksThisRound = DOMAIN previousTouchInfo) =>
       /\ Len(trackLog') = Cardinality(tracksThisRound)
       /\ {trackLog'[k] : k \in DOMAIN trackLog'} = {<<"Updated", t>> : t \in tracksThisRound}
       /\ SynCount(uiLog') = (IF tracksThisRound = {} THEN 0 ELSE 1)]_vars

\* a cycle has updated two tracks and handled nothing else
C9_Witness ==
  /\ pc = "ClearBuffer"
  /\ Len(trackLog) = 2
  /\ NumCalls("Updated", trackLog) = 2
  /\ SynCount(uiLog) = 1

------------------------------------------------------------------------------
(* C10 *)

\* a register read of a contact query raises in this step
ContactReadFails == pc = "QueryPoint" /\ exception' = "OSError"

NoRepeat(log) == \A a, b \in DOMAIN log : a # b => log[a] # log[b]

\* C10 (as claimed): after a transport error in a contact query the loop
\* abandons the cycle and goes on to the poll delay and a fresh status read.
C10_FreshCycleAfterError ==
  [][ContactReadFails => pc' = "Sleep"]_vars

\* C10 (amended): after a transport error in a contact query the loop does not
\* retry (no register is read twice in the cycle), abandons the cycle (no diff,
\* no event, no buffer-clear write, current and previous as they were) and
\* ends: the error leaves the loop, and no step follows it.
C10_ErrorEndsLoop ==
  [][/\ pc # "Crashed"
     /\ ContactReadFails =>
          /\ pc' = "Crashed"
          /\ NoRepeat(busLog')
          /\ ~Acknowledged(busLog')
          /\ uiLog' = << >> /\ trackLog' = << >>
          /\ UNCHANGED <<touchInfo, previousTouchInfo>>]_vars

\* the loop has ended on a transport error in the query of the second contact
C10_Witness ==
  /\ pc = "Crashed"
  /\ exception = "OSError"
  /\ i = 1
  /\ busLog[Len(busLog)].reg # StatusRegister
  /\ touchInfo # EmptyInfo

------------------------------------------------------------------------------
(* C11 *)

\* a bus transaction raises in this step
TransportErrorStep == exception = "none" /\ exception' = "OSError"
\* the loop has ended on a transport error
EndedOnTransportError == pc = "Crashed" /\ exception = "OSError"
LastBusOp == busLog[Len(busLog)]

\* C11 (as claimed): when a transport error has ended the loop, previous is as
\* it was when the cycle started, whichever bus transaction failed, and no
\* event was emitted in the cycle when the failed transaction was a read.
C11_PreviousKeptOnAnyError ==
  EndedOnTransportError =>
    /\ previousTouchInfo = cyclePrevious
    /\ LastBusOp.op = "read" => (uiLog = << >> /\ trackLog = << >>)

\* C11 (amended): a transport error in any bus transaction of a cycle ends the
\* loop in that step, the failed transaction being the last one on the bus.
\* When it was the status read or a contact read, previous is as it was when
\* the cycle started and the cycle has emitted nothing.  When it was the
\* buffer-clear write, the diff has already run: its events stay emitted and
\* previous has already been replaced by current.
C11_TransportErrorEndsLoop ==
  /\ [][/\ pc # "Crashed"
        /\ TransportErrorStep =>
             /\ pc' = "Crashed"
             /\ Len(busLog') >= 1
             /\ UNCHANGED <<touchInfo, previousTouchInfo, liveTracks>>]_vars
  /\ [](EndedOnTransportError =>
          /\ LastBusOp.op = "read" =>
               /\ previousTouchInfo = cyclePrevious
               /\ uiLog = << >> /\ trackLog = << >>
          /\ LastBusOp.op = "write" =>
               /\ previousTouchInfo = touchInfo
               /\ \A k \in 1..(Len(busLog) - 1) : busLog[k].op = "read")

\* the buffer-clear write failed after a diff that changed previous
C11_Witness ==
  /\ EndedOnTransportError
  /\ LastBusOp.op = "write"
  /\ previousTouchInfo # cyclePrevious
  /\ uiLog # << >>

------------------------------------------------------------------------------
(* C12 *)

\* a register byte pair as a number, low byte first
Word(pair) == pair[1] + 256 * pair[2]

\* C12 (as claimed): the value derived from the raw X reading is the scaled raw
\* X when flipX is off and (native X resolution * scaling) - (raw X * scaling)
\* when flipX is on, with swapXY off and with swapXY on alike; likewise for Y
\* with the native Y resolution.  The swap comes after the flip: the value
\* derived from X is reported as y when swapXY is on, as x when it is off.
C12_FlipAboutNativeAxis ==
  applied.fn = "queryPoint" =>
    LET s == applied.scaling
        fromX == IF applied.swapXY THEN applied.point.y ELSE applied.point.x
        fromY == IF applied.swapXY THEN applied.point.x ELSE applied.point.y
    IN /\ fromX = IF applied.flipX
                  THEN Word(applied.xRes) * s - Word(applied.raw.x) * s
                  ELSE Word(applied.raw.x) * s
       /\ fromY = IF applied.flipY
                  THEN Word(applied.yRes) * s - Word(applied.raw.y) * s
                  ELSE Word(applied.raw.y) * s

------------------------------------------------------------------------------
(* C14 *)

Bit(flag) == IF flag THEN 1 ELSE 0

\* C14: for every status byte b in 0..255 the decoded flags and count are the
\* binary digits of b: b = 128 bufferStatus + 64 largeDetect + 32 proximityValid
\* + 16 haveKey + touchPoints with touchPoints in 0..15; 0b10000011 decodes to
\* ready, no other flag, 3 contacts.
C14_StatusDecoding ==
  applied.fn = "decodeStatus" =>
    /\ applied.touchPoints \in 0..15
    /\ applied.b = 128 * Bit(applied.bufferStatus) + 64 * Bit(applied.largeDetect)
                     + 32 * Bit(applied.proximityValid) + 16 * Bit(applied.haveKey)
                     + applied.touchPoints
    /\ applied.b = 131 =>
         /\ applied.bufferStatus
         /\ ~applied.largeDetect /\ ~applied.proximityValid /\ ~applied.haveKey
         /\ applied.touchPoints = 3

\* the status byte 0b10000011 has been decoded
C14_Witness ==
  /\ applied.fn = "decodeStatus"
  /\ applied.b = 131

------------------------------------------------------------------------------
(* C15 *)

\* b1 + 256 * (b2 + 256 * (b3 + ...))
RECURSIVE LittleEndian(_)
LittleEndian(bytes) ==
  IF bytes = << >> THEN 0 ELSE Head(bytes) + 256 * LittleEndian(Tail(bytes))

\* C15: __readI2CMultiByteValue reads each given register once, in the order
\* given, and returns the bytes read combined little-endian; the bytes 0x34,
\* 0x12 give 0x1234.
C15_LittleEndianCombine ==
  applied.fn = "readI2CMultiByteValue" =>
    /\ Len(applied.reads) = Len(applied.registers)
    /\ \A k \in DOMAIN applied.registers :
         applied.reads[k] = [op |-> "read", reg |-> applied.registers[k]]
    /\ applied.value = LittleEndian(applied.bytes)
    /\ applied.bytes = <<52, 18>> => applied.value = 4660

\* the bytes 0x34, 0x12 have been read and combined
C15_Witness ==
  /\ applied.fn = "readI2CMultiByteValue"
  /\ applied.bytes = <<52, 18>>
  /\ applied.value = 4660

------------------------------------------------------------------------------
(* C13 *)

\* the contact slot a register belongs to: slot k owns (0x81, 0x4F + 8k .. 0x56 + 8k)
ContactSlot(reg) == (reg[2] - 79) \div 8
IsContactRead(o) == o.op = "read" /\ o.reg[1] = 129 /\ o.reg[2] >= 79
IsStatusRead(o) == o.op = "read" /\ o.reg = <<129, 78>>
IsClearWrite(o) == o.op = "write" /\ o.reg = <<129, 78>> /\ o.data = 0
\* register reads per contact: x, y and size two bytes each, track one
ReadsPerContact == 7

\* C13: the bus transactions of a cycle are the status read, then the contact
\* reads slot by slot from slot 0 up, below the contact count, then, last, the
\* buffer-clear write; events are emitted only when all contacts have been read
\* and the buffer-clear write has not been made; between the buffer-clear write
\* and the next status read there is no bus transaction and no event; a cycle
\* that was ready is acknowledged when the next status read begins, and that
\* read starts the log of the next cycle.
C13_CycleOrder ==
  /\ [](/\ busLog # << >> => IsStatusRead(busLog[1])
        /\ \A j \in 2..Len(busLog) :
             \/ /\ IsContactRead(busLog[j])
                /\ ContactSlot(busLog[j].reg) = (j - 2) \div ReadsPerContact
                /\ ContactSlot(busLog[j].reg) < CountNibble(statusByte)
                /\ ReadyBit(statusByte)
             \/ /\ IsClearWrite(busLog[j])
                /\ j = Len(busLog)
                /\ j = 2 + ReadsPerContact * CountNibble(statusByte)
        /\ uiLog # << >> => Len(busLog) >= 1 + ReadsPerContact * CountNibble(statusByte)
        /\ (pc = "ReadStatus" /\ busLog # << >> /\ ReadyBit(statusByte))
             => Acknowledged(busLog))
  /\ [][/\ uiLog' # uiLog /\ uiLog' # << >> =>
             /\ Len(busLog) = 1 + ReadsPerContact * CountNibble(statusByte)
             /\ busLog' = busLog
        /\ (Acknowledged(busLog) /\ pc # "ReadStatus") =>
             UNCHANGED <<busLog, uiLog, trackLog>>
        /\ pc = "ReadStatus" =>
             /\ Len(busLog') = 1 /\ IsStatusRead(busLog'[1])
             /\ uiLog' = << >>]_vars

\* a cycle has read two contacts, emitted events and cleared the buffer
C13_Witness ==
  /\ pc = "Sleep"
  /\ Len(busLog) = 2 + 2 * ReadsPerContact
  /\ IsClearWrite(busLog[Len(busLog)])
  /\ uiLog # << >>

------------------------------------------------------------------------------
(* C16 *)

\* C16: when the diff of a ready cycle with contact count n in 1..5 is about to
\* run, current holds exactly the track IDs read in this cycle, each with the
\* contact read last for it (the higher slot when two slots report the same
\* track ID, current then holding fewer than n entries), and nothing kept from
\* an earlier cycle.
C16_CurrentIsThisCyclesReads ==
  (pc = "EventCallback" /\ ReadyBit(statusByte) /\ CountNibble(statusByte) \in 1..5) =>
    /\ i = CountNibble(statusByte)
    /\ DOMAIN touchInfo = tracksThisRound
    /\ touchInfo = readThisRound
    /\ Size(touchInfo) <= CountNibble(statusByte)
    /\ \A t \in DOMAIN cyclePrevious \ tracksThisRound : t \notin DOMAIN touchInfo

\* three slots were read, two of them with the same track ID, and a track of
\* the previous cycle was not reported again
C16_Witness ==
  /\ pc = "EventCallback"
  /\ CountNibble(statusByte) = 3
  /\ Size(touchInfo) = 2
  /\ DOMAIN cyclePrevious \ DOMAIN touchInfo # {}

------------------------------------------------------------------------------
(* C17 *)

WithinCaps(e, res) ==
  /\ e.value >= Caps(res)[e.code].min
  /\ e.value <= Caps(res)[e.code].max

\* C17 (as claimed): every slot-select event emitted carries a slot index
\* within the range declared for the virtual device, 0..9, whatever track ID
\* 0..255 the hardware reports.
C17_SlotWithinDeclaredRange ==
  \A k \in DOMAIN uiLog :
    uiLog[k].code = "ABS_MT_SLOT" =>
      /\ WithinCaps(uiLog[k], coordinateResolution)
      /\ uiLog[k].value \in 0..9

------------------------------------------------------------------------------
(* C18 *)

\* C18 (as claimed): with raw coordinates inside the native resolution, as the
\* panels of the model report them, every position X and position Y event
\* emitted lies in the range declared for it, 0..coordinateResolution width and
\* 0..coordinateResolution height, whatever the flips, the swap and the scaling.
C18_PositionWithinDeclaredRange ==
  \A k \in DOMAIN uiLog :
    uiLog[k].code \in {"ABS_MT_POSITION_X", "ABS_MT_POSITION_Y"} =>
      WithinCaps(uiLog[k], coordinateResolution)

------------------------------------------------------------------------------
(* C19 *)

\* a track ID has at most one transition in the calls of one cycle
OneTransitionPerTrack(log) ==
  \A a, b \in DOMAIN log : a # b => log[a][2] # log[b][2]

\* C19: from the empty start, the handler calls made for one track ID follow
\* New, then Updated any number of times, then Ended, and again: a track gets
\* New only when it is not live, Updated or Ended only when it is live (a New
\* announced it and no Ended has released it since), and at most one
\* transition in one cycle; the live tracks are those the driver remembers.
C19_TrackLifecycle ==
  /\ [](pc = "ReadStatus" /\ busLog = << >> => liveTracks = {})
  /\ [](liveTracks = DOMAIN previousTouchInfo)
  /\ [][pc = "EventCallback" =>
          /\ OneTransitionPerTrack(trackLog')
          /\ Handled("New", trackLog') \cap liveTracks = {}
          /\ Handled("Updated", trackLog') \subseteq liveTracks
          /\ Handled("Ended", trackLog') \subseteq liveTracks
          /\ liveTracks' = (liveTracks \cup Handled("New", trackLog'))
                             \ Handled("Ended", trackLog')]_vars

\* a diff has announced one track, moved a live one and released another
C19_Witness ==
  /\ pc = "ClearBuffer"
  /\ Handled("New", trackLog) # {}
  /\ Handled("Ended", trackLog) # {}
  /\ Handled("Updated", trackLog) # {}
  /\ liveTracks = Handled("New", trackLog) \cup Handled("Updated", trackLog)
  /\ DOMAIN cyclePrevious # {}

====
